---- MODULE Spec2Model ----
(***************************************************************************)
(* Model of the InoPyUtils helpers.                                        *)
(*                                                                         *)
(* Part 1: InoLogHelper (log_helper.py), the rotating log stream.  One     *)
(* InoLogHelper instance writes into one directory; several asyncio tasks  *)
(* may call add() on it.  A task runs on the event loop until it awaits a  *)
(* file operation that aiofiles hands to the thread pool; the operation    *)
(* itself then happens at some later moment, and the task resumes after    *)
(* it.  Those are the step boundaries of the model.                        *)
(*                                                                         *)
(* Part 2: the result mappings of the stateless helpers.                   *)
(*                                                                         *)
(* Python values are written as their repr strings ("None", "''", ...).    *)
(***************************************************************************)
EXTENDS Integers, Sequences, FiniteSets, TLC

\* ------------------------------------------------------------------ bounds
MaxFileSizeBytes == 3      \* max_file_size_bytes of the stream, in bytes
MaxRecordBytes == 2        \* longest serialized record, in bytes
MaxAdds == 3               \* add() calls in one behaviour
MaxRestarts == 1           \* instances constructed after the first one
MaxForeign == 1            \* files put into the directory by someone else
OldSegments == 9           \* segments a previous run may have left behind

Tasks == {1, 2}

\* ------------------------------------------------------------- characters
Digits == <<"0", "1", "2", "3", "4", "5", "6", "7", "8", "9">>

IsDigit(c) == \E i \in 1..10 : Digits[i] = c

DigitVal(c) == (CHOOSE i \in 1..10 : Digits[i] = c) - 1

DigitChar(n) == Digits[n + 1]

RECURSIVE TrailingDigitCount(_)
TrailingDigitCount(s) ==
    IF Len(s) = 0 \/ ~IsDigit(s[Len(s)]) THEN 0
    ELSE 1 + TrailingDigitCount(SubSeq(s, 1, Len(s) - 1))

NamePrefix(s) == SubSeq(s, 1, Len(s) - TrailingDigitCount(s))

NameDigits(s) == SubSeq(s, Len(s) - TrailingDigitCount(s) + 1, Len(s))

RECURSIVE ToInt(_)
ToInt(ds) ==
    IF Len(ds) = 0 THEN 0
    ELSE 10 * ToInt(SubSeq(ds, 1, Len(ds) - 1)) + DigitVal(ds[Len(ds)])

RECURSIVE IntDigits(_)
IntDigits(n) ==
    IF n < 10 THEN <<DigitChar(n)>>
    ELSE IntDigits(n \div 10) \o <<DigitChar(n % 10)>>

RECURSIVE Zeros(_)
Zeros(n) == IF n <= 0 THEN <<>> ELSE <<"0">> \o Zeros(n - 1)

\* str(n).zfill(w): left-pad with zeros to width w, never truncate
ZFill(n, w) == Zeros(w - Len(IntDigits(n))) \o IntDigits(n)

\* InoFileHelper.increment_batch_name: parse the trailing digits, add one,
\* zero-pad to 5 digits again.
IncrementBatchName(stem) ==
    NamePrefix(stem) \o ZFill(ToInt(NameDigits(stem)) + 1, 5)

\* ------------------------------------------------------------------ names
LogName == <<"L">>

LogExt == "inolog"

Path(stem, ext) == [stem |-> stem, ext |-> ext]

FirstLogFile == Path(LogName \o <<"_", "0", "0", "0", "0", "1">>, LogExt)

NoFile == Path(<<>>, "None")

ForeignNames ==
    { Path(<<"M", "_", "0", "0", "0", "0", "1">>, LogExt),
      Path(<<"M", "_", "0", "0", "0", "0", "7">>, "txt") }

\* ------------------------------------------------------------- directory
\* The directory self.path is the sequence of its files in creation order;
\* a file is its name and its bytes.  A byte of a record remembers which
\* record it belongs to and where in the record it stands; the last byte of
\* a record is its newline.
Byte(id, pos, len) == [id |-> id, pos |-> pos, len |-> len]

RecordBytes(id, len) == [i \in 1..len |-> Byte(id, i, len)]

File(name, data) == [name |-> name, data |-> data]

Exists(fs, name) == \E i \in 1..Len(fs) : fs[i].name = name

IndexOf(fs, name) == CHOOSE i \in 1..Len(fs) : fs[i].name = name

StSize(fs, name) == Len(fs[IndexOf(fs, name)].data)

\* InoFileHelper.get_last_file: the most recently created file
GetLastFile(fs) ==
    IF Len(fs) = 0 THEN [success |-> FALSE, file |-> File(NoFile, <<>>)]
    ELSE [success |-> TRUE, file |-> fs[Len(fs)]]

\* open(path, 'w'): create the file, or truncate it when it is there
OpenW(fs, name) ==
    IF Exists(fs, name)
    THEN [fs EXCEPT ![IndexOf(fs, name)].data = <<>>]
    ELSE Append(fs, File(name, <<>>))

\* open(path, 'a'): create the file when it is missing
OpenA(fs, name) ==
    IF Exists(fs, name) THEN fs ELSE Append(fs, File(name, <<>>))

\* a write through a handle opened in append mode lands at the end
AppendBytes(fs, name, bytes) ==
    [fs EXCEPT ![IndexOf(fs, name)].data = @ \o bytes]

\* what a previous run of the stream leaves behind: segments 1..n, all full
\* but the last, which holds `last` bytes
RECURSIVE OldRun(_, _)
OldRun(n, last) ==
    IF n = 0 THEN <<>>
    ELSE Append(OldRun(n - 1, MaxFileSizeBytes),
                File(Path(LogName \o <<"_">> \o ZFill(n, 5), LogExt),
                     RecordBytes(0 - n, last)))

\* ---------------------------------------------------------- log entries
LogCategory == {"DEBUG", "INFO", "WARNING", "ERROR", "CRITICAL"}

None == "None"

\* log_data values: three dicts, a list that holds the string 'success',
\* and None
Payloads ==
    {"{'success': True}", "{'success': False}", "{'k': 1}", "['success']", None}

\* isinstance(log_data, dict)
IsDict(p) == p \in {"{'success': True}", "{'success': False}", "{'k': 1}"}

\* "success" in log_data, for a dict
HasSuccessKey(p) == p \in {"{'success': True}", "{'success': False}"}

\* truth value of log_data.get("success")
SuccessTruthy(p) == p = "{'success': True}"

EntryFields ==
    {"timestamp", "iso_timestamp", "category", "level", "logger", "source",
     "process_id", "msg", "data"}

\* the arguments of one add() call; len is the length of the line that
\* json.dumps makes of them
AddArgs ==
    [log_data : Payloads, msg : {"''", "'m'"}, category : LogCategory \cup {None},
     source : {None, "'s'"}, len : 1..MaxRecordBytes, id : {0}]

PlainArgs ==
    [log_data : {"{'k': 1}"}, msg : {"'m'"}, category : {None},
     source : {None}, len : 1..MaxRecordBytes, id : {0}]

NoArgs ==
    [log_data |-> None, msg |-> "''", category |-> None, source |-> None,
     len |-> 0, id |-> 0]

\* DetectCategory with INFO and ERROR the wrong way round
DetectCategory_Swapped(a) ==
    IF a.category = None
    THEN IF IsDict(a.log_data) /\ HasSuccessKey(a.log_data)
         THEN IF SuccessTruthy(a.log_data) THEN "ERROR" ELSE "INFO"
         ELSE "INFO"
    ELSE a.category

\* add(), lines 110-115
DetectCategory(a) ==
    IF a.category = None
    THEN IF IsDict(a.log_data) /\ HasSuccessKey(a.log_data)
         THEN IF SuccessTruthy(a.log_data) THEN "INFO" ELSE "ERROR"
         ELSE "INFO"
    ELSE a.category

\* add(), lines 118-129
BuildEntry(a) ==
    [f \in EntryFields |->
        CASE f = "timestamp" -> "'ts'"
          [] f = "iso_timestamp" -> "'iso'"
          [] f = "category" -> DetectCategory(a)
          [] f = "level" -> DetectCategory(a)
          [] f = "logger" -> "'L'"
          [] f = "source" -> a.source
          [] f = "process_id" -> "pid"
          [] f = "msg" -> a.msg
          [] f = "data" -> a.log_data]

\* Kept with a truth test (if v) in place of the None test
Kept_Truthy(entry, f) == entry[f] \notin {None, "''"}

\* add(), line 132: which fields of the entry stay
Kept(entry, f) == entry[f] # None

CleanEntry(entry) ==
    [f \in {g \in DOMAIN entry : Kept(entry, g)} |-> entry[f]]

Line(id, len, json) == [id |-> id, len |-> len, json |-> json]

NoLine == Line(0, 0, [f \in {} |-> None])

\* the line add() hands to f.write: json.dumps(entry) + "\n"
BuildLine(a) == Line(a.id, a.len, CleanEntry(BuildEntry(a)))

\* ------------------------------------------------------------------ state
VARIABLES
    files,        \* the directory self.path
    log_file,     \* self.log_file
    initialized,  \* self._initialized
    pc,           \* where each task stands
    opath,        \* the path of the file operation a task awaits
    args,         \* the arguments of the task's running add()
    line,         \* the line the task is writing
    calls,        \* add() calls started
    done,         \* add() calls returned
    restarts,     \* instances constructed after the first
    foreign       \* files created in the directory by others

logvars ==
    <<files, log_file, initialized, pc, opath, args, line, calls, done,
      restarts, foreign>>

VARIABLES
    op,        \* the helper operation that returned last
    result,    \* the mapping it returned
    arg,       \* the arguments it was called with
    outdir,    \* what lies under unzip's output_path
    jfile,     \* the file the JSON helper saves to and reads from
    disk,      \* the paths remove_file, remove_folder and move_file act on
    dest,      \* the names in copy_files' to_path
    copy_log,  \* to_path.parent / "copy_log.txt"
    media,     \* the files video_convert_ffmpeg works on
    pics,      \* the image files, by path
    thumb_dir, \* the output directory of the thumbnails
    config,    \* self.config of the configuration helper
    ini_files  \* the configuration files, by path

\* the state of the file, copy and media helpers
fsvars == <<disk, dest, copy_log, media>>

\* the state of the image, thumbnail and configuration helpers
extvars == <<pics, thumb_dir, config, ini_files>>

helpervars == <<op, result, arg, outdir, jfile, fsvars, extvars>>

vars == <<logvars, helpervars>>

LogInit ==
    /\ files \in {<<>>, OldRun(OldSegments, MaxFileSizeBytes - 1),
                  OldRun(OldSegments, MaxFileSizeBytes)}
    /\ log_file = NoFile
    /\ initialized = FALSE
    /\ pc = [t \in Tasks |-> "idle"]
    /\ opath = [t \in Tasks |-> NoFile]
    /\ args = [t \in Tasks |-> NoArgs]
    /\ line = [t \in Tasks |-> NoLine]
    /\ calls = 0
    /\ done = 0
    /\ restarts = 0
    /\ foreign = 0

\* CreateLogFileTarget with <= in the size test of line 76
CreateLogFileTarget_Inclusive(fs) ==
    LET get_last_log == GetLastFile(fs)
        current_file == get_last_log.file
    IN  IF get_last_log.success
        THEN IF current_file.name.ext = LogExt
                /\ Len(current_file.data) <= MaxFileSizeBytes
             THEN current_file.name
             ELSE Path(IncrementBatchName(current_file.name.stem), LogExt)
        ELSE FirstLogFile

\* CreateLogFileTarget that starts over at 00001 instead of incrementing
CreateLogFileTarget_StartOver(fs) ==
    LET get_last_log == GetLastFile(fs)
        current_file == get_last_log.file
    IN  IF get_last_log.success
           /\ current_file.name.ext = LogExt
           /\ Len(current_file.data) < MaxFileSizeBytes
        THEN current_file.name
        ELSE FirstLogFile

\* _create_log_file, lines 72-85: the segment the stream turns to
CreateLogFileTarget(fs) ==
    LET get_last_log == GetLastFile(fs)
        current_file == get_last_log.file
    IN  IF get_last_log.success
        THEN IF current_file.name.ext = LogExt
                /\ Len(current_file.data) < MaxFileSizeBytes
             THEN current_file.name
             ELSE Path(IncrementBatchName(current_file.name.stem), LogExt)
        ELSE FirstLogFile

\* where a task stands after a stretch of add() that ran without awaiting
Stand(p, lf, ini, path) ==
    [pc |-> p, log_file |-> lf, initialized |-> ini, opath |-> path]

\* add(), lines 106-108 and on to the open of line 135
RotationCheck(fs, lf, ini) ==
    IF Exists(fs, lf) /\ StSize(fs, lf) >= MaxFileSizeBytes
    THEN LET tgt == CreateLogFileTarget(fs)
         IN  IF Exists(fs, tgt)
             THEN Stand("open_a", tgt, ini, tgt)
             ELSE Stand("rot_w", tgt, ini, tgt)
    ELSE Stand("open_a", lf, ini, lf)

\* _ensure_initialized, lines 64-68, and on
EnsureInitialized(fs, lf, ini) ==
    IF ~ini
    THEN LET tgt == CreateLogFileTarget(fs)
         IN  IF Exists(fs, tgt)
             THEN RotationCheck(fs, tgt, TRUE)
             ELSE Stand("init_w", tgt, FALSE, tgt)
    ELSE RotationCheck(fs, lf, ini)

Take(t, st) ==
    /\ pc' = [pc EXCEPT ![t] = st.pc]
    /\ log_file' = st.log_file
    /\ initialized' = st.initialized
    /\ opath' = [opath EXCEPT ![t] = st.opath]

\* InoLogHelper.create(): a fresh instance runs _create_log_file
Create(t) ==
    /\ log_file = NoFile
    /\ ~initialized
    /\ \A u \in Tasks : pc[u] = "idle"
    /\ LET tgt == CreateLogFileTarget(files)
       IN  IF Exists(files, tgt)
           THEN Take(t, Stand("idle", tgt, TRUE, NoFile))
           ELSE Take(t, Stand("create_w", tgt, FALSE, tgt))
    /\ UNCHANGED <<files, args, line, calls, done, restarts, foreign, helpervars>>

\* add() is called: it runs up to its first await of a file operation
AddCall(t, a) ==
    /\ pc[t] = "idle"
    /\ \A u \in Tasks : pc[u] \notin {"create_w", "create_c"}
    /\ calls < MaxAdds
    /\ calls' = calls + 1
    /\ args' = [args EXCEPT ![t] = [a EXCEPT !.id = calls + 1]]
    /\ LET st == EnsureInitialized(files, log_file, initialized)
       IN  /\ Take(t, st)
           /\ line' = [line EXCEPT
                  ![t] = IF st.pc = "open_a" THEN BuildLine(args'[t]) ELSE NoLine]
    /\ UNCHANGED <<files, done, restarts, foreign, helpervars>>

\* the thread pool runs open(path, 'w') of line 89
ExecOpenW(t) ==
    /\ pc[t] \in {"create_w", "init_w", "rot_w"}
    /\ files' = OpenW(files, opath[t])
    /\ pc' = [pc EXCEPT ![t] = CASE pc[t] = "create_w" -> "create_c"
                                 [] pc[t] = "init_w" -> "init_c"
                                 [] pc[t] = "rot_w" -> "rot_c"]
    /\ UNCHANGED <<log_file, initialized, opath, args, line, calls, done,
                   restarts, foreign, helpervars>>

\* the task resumes after the file was created and closed
ResumeCreated(t) ==
    /\ pc[t] \in {"create_c", "init_c", "rot_c"}
    /\ LET st == CASE pc[t] = "create_c" -> Stand("idle", log_file, TRUE, NoFile)
                   [] pc[t] = "init_c" -> RotationCheck(files, log_file, TRUE)
                   [] pc[t] = "rot_c" ->
                          Stand("open_a", log_file, initialized, log_file)
       IN  /\ Take(t, st)
           /\ line' = [line EXCEPT
                  ![t] = IF st.pc = "open_a" THEN BuildLine(args[t]) ELSE NoLine]
    /\ UNCHANGED <<files, args, calls, done, restarts, foreign, helpervars>>

\* the thread pool runs open(path, 'a') of line 135
ExecOpenA(t) ==
    /\ pc[t] = "open_a"
    /\ files' = OpenA(files, opath[t])
    /\ pc' = [pc EXCEPT ![t] = "write"]
    /\ UNCHANGED <<log_file, initialized, opath, args, line, calls, done,
                   restarts, foreign, helpervars>>

\* f.write of line 136: the line goes into the handle's buffer
ExecWrite(t) ==
    /\ pc[t] = "write"
    /\ pc' = [pc EXCEPT ![t] = "close"]
    /\ UNCHANGED <<files, log_file, initialized, opath, args, line, calls,
                   done, restarts, foreign, helpervars>>

\* Flushed without the "\n" that line 136 adds
Flushed_NoNewline(l) == SubSeq(RecordBytes(l.id, l.len), 1, l.len - 1)

\* the bytes a closing handle flushes to the file
Flushed(l) == RecordBytes(l.id, l.len)

\* leaving the async with of line 135: the buffer is flushed in one write
\* at the end of the file, the handle is closed and add() returns
ExecClose(t) ==
    /\ pc[t] = "close"
    /\ files' = AppendBytes(files, opath[t], Flushed(line[t]))
    /\ pc' = [pc EXCEPT ![t] = "idle"]
    /\ opath' = [opath EXCEPT ![t] = NoFile]
    /\ args' = [args EXCEPT ![t] = NoArgs]
    /\ line' = [line EXCEPT ![t] = NoLine]
    /\ done' = done + 1
    /\ UNCHANGED <<log_file, initialized, calls, restarts, foreign, helpervars>>

\* the process ends and a later one constructs a new InoLogHelper on the
\* same directory (__init__, lines 36-44)
Restart ==
    /\ \A t \in Tasks : pc[t] = "idle"
    /\ log_file # NoFile
    /\ restarts < MaxRestarts
    /\ restarts' = restarts + 1
    /\ log_file' = NoFile
    /\ initialized' = FALSE
    /\ UNCHANGED <<files, pc, opath, args, line, calls, done, foreign, helpervars>>

\* somebody else creates a file in the directory
ForeignCreate(name, len) ==
    /\ foreign < MaxForeign
    /\ ~Exists(files, name)
    /\ foreign' = foreign + 1
    /\ files' = Append(files, File(name, RecordBytes(0, len)))
    /\ UNCHANGED <<log_file, initialized, pc, opath, args, line, calls, done,
                   restarts, helpervars>>

\* ---------------------------------------------------- helper results
\* A Python value of a result mapping: its type and its repr.
Py(type, repr) == [type |-> type, repr |-> repr]

PyBool(b) == Py("bool", IF b THEN "True" ELSE "False")

PyStr(s) == Py("str", s)

PyInt(n) == Py("int", ToString(n))

PyNone == Py("NoneType", None)

\* a dict literal {k1: v1, ...} given as a set of <<key, value>> pairs
Dict(pairs) ==
    [k \in {p[1] : p \in pairs} |-> (CHOOSE p \in pairs : p[1] = k)[2]]

\* ------------------------------------------------------------ unzip
\* What rglob("*") can find under output_path: a file, a directory and a
\* file inside that directory.
Tree == {"a.txt", "d", "d/b.txt"}

IsDirEntry(e) == e = "d"

\* the members of an archive; extractall creates the parents of a member
Members == SUBSET Tree

Extracted(members) ==
    members \cup (IF "d/b.txt" \in members THEN {"d"} ELSE {})

\* the file at zip_path, as unzip sees it
ZipInputs ==
    {z \in [kind : {"missing", "dir", "file"}, suffix : {".zip", ".ZIP", ".txt"},
            valid : BOOLEAN, members : Members] :
        /\ z.kind # "file" => ~z.valid
        /\ ~z.valid => z.members = {}}

\* unzip, lines 10-51: the result mapping and output_path afterwards
Unzip(z, out) ==
    IF z.kind # "file"
    THEN [res |-> Dict({<<"success", PyBool(FALSE)>>,
                        <<"msg", PyStr("is not a file")>>}),
          out |-> out]
    ELSE IF z.suffix # ".zip"
    THEN [res |-> Dict({<<"success", PyBool(FALSE)>>,
                        <<"msg", PyStr("is not a zip file")>>}),
          out |-> out]
    ELSE IF ~z.valid
    THEN [res |-> Dict({<<"success", PyBool(FALSE)>>,
                        <<"msg", PyStr("is not a valid zip file")>>}),
          out |-> out]
    ELSE LET extracted_files == out \cup Extracted(z.members)
         IN  IF extracted_files = {}
             THEN [res |-> Dict({<<"success", PyBool(FALSE)>>,
                                 <<"msg", PyStr("No files found after extracting")>>}),
                   out |-> extracted_files]
             ELSE [res |-> Dict({<<"success", PyBool(TRUE)>>,
                                 <<"output_path", PyStr("output_path")>>,
                                 <<"files_extracted",
                                   PyInt(Cardinality(extracted_files))>>}),
                   out |-> extracted_files]

\* ------------------------------------------------------- InoJsonHelper
\* Python values handed to the JSON helper, as reprs: None, a bool, an int,
\* a float, a str, a list, a tuple, a dict with a str key, a dict with an
\* int key, a list that holds a dict that holds None, and a set (which json
\* cannot serialize)
JsonData ==
    {"None", "True", "1", "1.5", "'s'", "[1]", "(1,)", "{'k': 1}", "{1: 1}",
     "[{'k': None}]", "{1}"}

Serializable(v) == v # "{1}"

\* json.dumps: the JSON text of a value (JSON's double quotes written ')
Dumps(v) ==
    CASE v = "None" -> "null"
      [] v = "True" -> "true"
      [] v = "1" -> "1"
      [] v = "1.5" -> "1.5"
      [] v = "'s'" -> "'s'"
      [] v = "[1]" -> "[1]"
      [] v = "(1,)" -> "[1]"
      [] v = "[{'k': None}]" -> "[{'k': null}]"
      [] v = "{'k': 1}" -> "{'k': 1}"
      [] v = "{1: 1}" -> "{'1': 1}"
      [] v = "{'1': 1}" -> "{'1': 1}"

\* the texts json.loads is given: the documents Dumps makes, the empty
\* text and a broken document
JsonTexts == {"null", "true", "1", "'s'", "[1]", "{'k': 1}", "{'1': 1}", "", "{oops"}

ValidJson(s) == s \notin {"", "{oops"}

\* json.loads of a valid document
Loads(s) ==
    CASE s = "null" -> "None"
      [] s = "true" -> "True"
      [] s = "1" -> "1"
      [] s = "1.5" -> "1.5"
      [] s = "'s'" -> "'s'"
      [] s = "[1]" -> "[1]"
      [] s = "[{'k': null}]" -> "[{'k': None}]"
      [] s = "{'k': 1}" -> "{'k': 1}"
      [] s = "{'1': 1}" -> "{'1': 1}"

Absent == "<absent>"

\* a value carried in the data field of a JSON helper result
PyData(v) == Py("data", v)

\* string_to_dict, lines 7-14
StringToDict(s) ==
    IF ValidJson(s)
    THEN Dict({<<"status", PyBool(TRUE)>>, <<"msg", PyStr("")>>,
               <<"data", PyData(Loads(s))>>})
    ELSE Dict({<<"status", PyBool(FALSE)>>, <<"msg", PyStr("Invalid JSON string")>>,
               <<"data", PyNone>>})

\* json_to_string, lines 17-25
JsonToString(v) ==
    IF Serializable(v)
    THEN Dict({<<"status", PyBool(TRUE)>>, <<"msg", PyStr("")>>,
               <<"data", PyStr(Dumps(v))>>})
    ELSE Dict({<<"status", PyBool(FALSE)>>,
               <<"msg", PyStr("Object not JSON serializable")>>,
               <<"data", PyNone>>})

\* save_string_as_json, lines 37-49: the result and the file afterwards
SaveStringAsJson(s, file) ==
    IF ValidJson(s)
    THEN [res |-> Dict({<<"status", PyBool(TRUE)>>, <<"msg", PyStr("")>>}),
          file |-> Dumps(Loads(s))]
    ELSE [res |-> Dict({<<"status", PyBool(FALSE)>>,
                        <<"msg", PyStr("Invalid JSON string")>>}),
          file |-> file]

\* save_json_as_json, lines 52-60: the file is opened with 'w' before
\* json.dumps runs, so a value that cannot be serialized leaves it empty
SaveJsonAsJson(v, file) ==
    IF Serializable(v)
    THEN [res |-> Dict({<<"status", PyBool(TRUE)>>, <<"msg", PyStr("")>>}),
          file |-> Dumps(v)]
    ELSE [res |-> Dict({<<"status", PyBool(FALSE)>>,
                        <<"msg", PyStr("Error saving file")>>}),
          file |-> ""]

\* ReadJsonFromFile that hands out the text of the file unparsed
ReadJsonFromFile_Raw(file) ==
    IF file = Absent
    THEN Dict({<<"status", PyBool(FALSE)>>, <<"msg", PyStr("File not found")>>,
               <<"data", PyNone>>})
    ELSE Dict({<<"status", PyBool(TRUE)>>, <<"msg", PyStr("")>>,
               <<"data", PyData(file)>>})

\* read_json_from_file, lines 63-76
ReadJsonFromFile(file) ==
    IF file = Absent
    THEN Dict({<<"status", PyBool(FALSE)>>, <<"msg", PyStr("File not found")>>,
               <<"data", PyNone>>})
    ELSE IF ~ValidJson(file)
    THEN Dict({<<"status", PyBool(FALSE)>>, <<"msg", PyStr("Invalid JSON in file")>>,
               <<"data", PyNone>>})
    ELSE Dict({<<"status", PyBool(TRUE)>>, <<"msg", PyStr("")>>,
               <<"data", PyData(Loads(file))>>})

\* ------------------------------------------- validate_video_res_fps
\* what OpenCV reports of the video: whether it opened, and how its width,
\* height and fps stand against max_res and max_fps
VideoInputs ==
    [opened : BOOLEAN, width_over : BOOLEAN, height_over : BOOLEAN,
     fps_over : BOOLEAN]

\* validate_video_res_fps, media_helper.py lines 497-526
ValidateVideoResFps(v) ==
    IF ~v.opened
    THEN Dict({<<"Result", PyBool(FALSE)>>,
               <<"Message", PyStr("OpenCV failed to open")>>})
    ELSE IF v.width_over \/ v.height_over
    THEN Dict({<<"Result", PyBool(TRUE)>>,
               <<"Message", PyStr("Video res is too high")>>})
    ELSE IF v.fps_over
    THEN Dict({<<"Result", PyBool(TRUE)>>,
               <<"Message", PyStr("Video fps is too high")>>})
    ELSE Dict({<<"Result", PyBool(FALSE)>>,
               <<"Message", PyStr("have a valid res and fps")>>})

\* ------------------------------- remove_file, remove_folder, move_file
\* The paths the three operations are given: two names at the top, a
\* directory name, and the two names inside that directory.
Paths == {"a", "b", "d", "d/a", "d/b"}

\* Path.parent, for the paths that have one below the top
HasParent(p) == p \in {"d/a", "d/b"}

Parent(p) == "d"

\* os.path.basename
Base(p) == IF p \in {"a", "d/a"} THEN "a" ELSE IF p \in {"b", "d/b"} THEN "b" ELSE "d"

\* os.path.join(dir, name), for the one directory
Join(dir, name) == IF name = "a" THEN "d/a" ELSE "d/b"

\* what a path is on disk
Kinds == {"absent", "file", "dir"}

\* the disks: a and b are files or missing, d is a file, a directory or
\* missing, and something lies under d only when d is a directory
Disks ==
    {dk \in [Paths -> Kinds] :
        /\ dk["a"] # "dir"
        /\ dk["b"] # "dir"
        /\ \A p \in Paths : HasParent(p) =>
              /\ dk[p] # "dir"
              /\ dk[p] # "absent" => dk[Parent(p)] = "dir"}

NoDisk == [p \in Paths |-> "absent"]

\* how the operating system treats the call: it lets it through, refuses it
\* at once, or (rmtree only) refuses it after the directory was emptied
OsOutcomes == {"ok", "refused", "refused_late"}

Outcome(res, dk) == [res |-> res, disk |-> dk]

Failure(msg) == Dict({<<"success", PyBool(FALSE)>>, <<"msg", PyStr(msg)>>})

Success(msg) == Dict({<<"success", PyBool(TRUE)>>, <<"msg", PyStr(msg)>>})

\* remove_file, lines 53-78
RemoveFile(p, dk, os) ==
    IF dk[p] = "absent" THEN Outcome(Failure("not exist"), dk)
    ELSE IF dk[p] # "file" THEN Outcome(Failure("is not a file"), dk)
    ELSE IF os # "ok" THEN Outcome(Failure("Failed to delete"), dk)
    ELSE Outcome(Success("deleted"), [dk EXCEPT ![p] = "absent"])

\* shutil.rmtree on the way: everything under the directory is gone
Emptied(p, dk) ==
    [q \in Paths |-> IF HasParent(q) /\ Parent(q) = p THEN "absent" ELSE dk[q]]

\* remove_folder, lines 80-105
RemoveFolder(p, dk, os) ==
    IF dk[p] = "absent" THEN Outcome(Failure("not exist"), dk)
    ELSE IF dk[p] # "dir" THEN Outcome(Failure("is not a directory"), dk)
    ELSE IF os = "refused" THEN Outcome(Failure("Failed to delete"), dk)
    ELSE IF os = "refused_late"
    THEN Outcome(Failure("Failed to delete"), Emptied(p, dk))
    ELSE Outcome(Success("deleted"), [Emptied(p, dk) EXCEPT ![p] = "absent"])

\* to_path.parent.mkdir(parents=True, exist_ok=True) of line 122, run only
\* when the parent does not exist
MkdirParent(to, dk) ==
    IF HasParent(to) /\ dk[Parent(to)] = "absent"
    THEN [dk EXCEPT ![Parent(to)] = "dir"]
    ELSE dk

\* shutil.move(src, dst) for a file src: into dst when dst is a directory
\* (an error when the name is taken there), else onto dst, replacing a file
\* that is there; an error when the directory of dst is not a directory
ShutilMove(src, dst, dk) ==
    IF dk[dst] = "dir"
    THEN LET real_dst == Join(dst, Base(src))
         IN  IF dk[real_dst] # "absent" THEN [ok |-> FALSE, disk |-> dk]
             ELSE [ok |-> TRUE,
                   disk |-> [dk EXCEPT ![src] = "absent", ![real_dst] = "file"]]
    ELSE IF HasParent(dst) /\ dk[Parent(dst)] # "dir"
    THEN [ok |-> FALSE, disk |-> dk]
    ELSE IF src = dst THEN [ok |-> TRUE, disk |-> dk]
    ELSE [ok |-> TRUE, disk |-> [dk EXCEPT ![src] = "absent", ![dst] = "file"]]

\* MoveFile with the parent of to_path made before from_path is looked at
MoveFile_MkdirFirst(from, to, dk, os) ==
    LET made == MkdirParent(to, dk)
    IN  IF dk[from] = "absent" THEN Outcome(Failure("not exist"), made)
        ELSE IF dk[from] # "file" THEN Outcome(Failure("is not a file"), made)
        ELSE LET moved == ShutilMove(from, to, made)
             IN  IF os # "ok" \/ ~moved.ok
                 THEN Outcome(Failure("Failed to move"), made)
                 ELSE Outcome(Success("moved"), moved.disk)

\* move_file, lines 107-134
MoveFile(from, to, dk, os) ==
    IF dk[from] = "absent" THEN Outcome(Failure("not exist"), dk)
    ELSE IF dk[from] # "file" THEN Outcome(Failure("is not a file"), dk)
    ELSE LET made == MkdirParent(to, dk)
             moved == ShutilMove(from, to, made)
         IN  IF os # "ok" \/ ~moved.ok
             THEN Outcome(Failure("Failed to move"), made)
             ELSE Outcome(Success("moved"), moved.disk)

\* ------------------------------------------------------- copy_files
MaxFiles == 3              \* files in one traversal of from_path

\* file names are sequences of characters
FileNames ==
    { <<"a", ".", "J">>,      \* a.J: a suffix in upper case
      <<"b", ".", "t">>,      \* b.t
      <<"R">>,                \* R: no suffix
      <<" ", ".", "t">> }     \* a blank stem

\* str.rfind(".") counted from 1; 0 when there is no dot
RECURSIVE LastDot(_)
LastDot(name) ==
    IF Len(name) = 0 THEN 0
    ELSE IF name[Len(name)] = "." THEN Len(name)
    ELSE LastDot(SubSeq(name, 1, Len(name) - 1))

\* Path.suffix: from the last dot on, unless the dot is the first or the
\* last character
Suffix(name) ==
    LET i == LastDot(name)
    IN  IF 1 < i /\ i < Len(name) THEN SubSeq(name, i, Len(name)) ELSE <<>>

\* Path.stem
Stem(name) == SubSeq(name, 1, Len(name) - Len(Suffix(name)))

LowerChar(ch) == IF ch = "J" THEN "j" ELSE IF ch = "R" THEN "r" ELSE ch

\* str.lower
Lower(str) == [i \in 1..Len(str) |-> LowerChar(str[i])]

\* not stem.strip(): the stem is empty or all blanks
StripEmpty(str) == \A i \in 1..Len(str) : str[i] = " "

PrefixName == <<"F", "i", "l", "e">>

\* what becomes of a file at its turn: copy2 copies it, copy2 raises, or
\* the file is no longer there (is_file() of line 157 is false)
CopyOutcomes == {"ok", "fail", "gone"}

SourceFiles == [name : FileNames, st : CopyOutcomes]

RECURSIVE SeqsUpTo(_, _)
SeqsUpTo(S, n) ==
    IF n = 0 THEN {<<>>}
    ELSE LET shorter == SeqsUpTo(S, n - 1)
         IN  shorter \cup {Append(q, x) : q \in {r \in shorter : Len(r) = n - 1}, x \in S}

\* the list `files` of lines 150-153, in traversal order
Traversals == SeqsUpTo(SourceFiles, MaxFiles)

LogLine(kind, idx, name) == [kind |-> kind, idx |-> idx, name |-> name]

\* NewName with a two-digit index (idx:02)
NewName_TwoDigits(idx, name, ext, rename_files) ==
    IF rename_files THEN PrefixName \o <<"_">> \o ZFill(idx, 2) \o ext
    ELSE IF StripEmpty(Stem(name))
         THEN <<"u", "n", "n", "a", "m", "e", "d", "_">> \o ZFill(idx, 2) \o ext
         ELSE name

\* new_name, lines 166-173
NewName(idx, name, ext, rename_files) ==
    IF rename_files THEN PrefixName \o <<"_">> \o ZFill(idx, 3) \o ext
    ELSE IF StripEmpty(Stem(name))
         THEN <<"u", "n", "n", "a", "m", "e", "d", "_">> \o ZFill(idx, 3) \o ext
         ELSE name

\* ErrorFlag that forgets earlier failures (error = this copy failed)
ErrorFlag_LastOnly(error, st) == st = "fail"

\* line 185: error stays True once a copy failed
ErrorFlag(error, st) == error \/ st = "fail"

\* the body of the loop of lines 156-185 for the file at index idx; run is
\* the destination, the log lines and the error flag so far
CopyOne(idx, file, rename_files, run) ==
    IF file.st = "gone"
    THEN [run EXCEPT !.log = Append(@, LogLine("not_a_file", idx, file.name))]
    ELSE LET suffix == Lower(Suffix(file.name))
             ext == IF suffix = <<>> THEN file.name ELSE suffix
             new_name == NewName(idx, file.name, ext, rename_files)
             warnings ==
                 (IF suffix = <<>>
                  THEN <<LogLine("no_extension", idx, file.name)>> ELSE <<>>)
                 \o (IF ~rename_files /\ StripEmpty(Stem(file.name))
                     THEN <<LogLine("empty_name", idx, file.name)>> ELSE <<>>)
                 \o (IF new_name \in run.dest
                     THEN <<LogLine("exists", idx, new_name)>> ELSE <<>>)
         IN  [dest |-> IF file.st = "ok" THEN run.dest \cup {new_name}
                       ELSE run.dest,
              log |-> run.log \o warnings
                        \o <<LogLine(IF file.st = "ok" THEN "copied" ELSE "failed",
                                     idx, new_name)>>,
              error |-> ErrorFlag(run.error, file.st)]

\* for idx, file in enumerate(files, start=1)
RECURSIVE CopyLoop(_, _, _, _)
CopyLoop(idx, fs, rename_files, run) ==
    IF idx > Len(fs) THEN run
    ELSE CopyLoop(idx + 1, fs, rename_files, CopyOne(idx, fs[idx], rename_files, run))

\* WriteLog with the log opened for append
WriteLog_Appended(log_lines, old) ==
    IF log_lines # <<>> THEN (IF old = Absent THEN <<>> ELSE old) \o log_lines
    ELSE old

\* lines 187-189: the log is written, replacing an old one, when there are
\* lines
WriteLog(log_lines, old) == IF log_lines # <<>> THEN log_lines ELSE old

\* copy_files, lines 137-200: the result, to_path and copy_log.txt afterwards
CopyFiles(fs, rename_files, to_path, old_log) ==
    LET run == CopyLoop(1, fs, rename_files,
                        [dest |-> to_path, log |-> <<>>, error |-> FALSE])
    IN  [res |-> IF run.error THEN Failure("Failed to copy files, see log file")
                 ELSE Success("Coping and renaming files completed"),
         dest |-> run.dest,
         log |-> WriteLog(run.log, old_log)]

\* what may lie in to_path before the call
Destinations ==
    { {}, {PrefixName \o <<"_", "0", "0", "1", ".", "j">>, <<"b", ".", "t">>} }

\* a copy_log.txt left by an earlier call
OldLog == <<LogLine("copied", 1, <<"o", "l", "d">>)>>

\* ------------------------------------------------------ chunks_raw_pcm
MaxAudioLen == 3           \* longest audio byte sequence
MaxChunkSize == 3          \* largest chunk_size

\* the audio argument: bytes or a bytearray of 0s and 1s, or a str
AudioArgs ==
    [type : {"bytes", "bytearray"}, val : SeqsUpTo({0, 1}, MaxAudioLen)]
      \cup {[type |-> "str", val |-> <<>>]}

\* the chunk_size argument: an int, a bool (True is the int 1, False the
\* int 0) or a float
ChunkSizeArgs ==
    [type : {"int"}, val : (0 - 1)..MaxChunkSize]
      \cup [type : {"bool"}, val : {0, 1}]
      \cup [type : {"float"}, val : {2}]

\* PySlice that takes one byte more than asked
PySlice_Inclusive(data, lo, hi) ==
    SubSeq(data, lo + 1, IF hi + 1 < Len(data) THEN hi + 1 ELSE Len(data))

\* data[lo:hi] for 0 <= lo <= hi: the bytes at 0-based places lo..hi-1 that
\* exist
PySlice(data, lo, hi) ==
    SubSeq(data, lo + 1, IF hi < Len(data) THEN hi ELSE Len(data))

\* ChunkList that leaves out a last chunk shorter than chunk_size
RECURSIVE ChunkList_DropTail(_, _, _)
ChunkList_DropTail(data, i, chunk_size) ==
    IF i + chunk_size > Len(data) THEN <<>>
    ELSE <<PySlice(data, i, i + chunk_size)>>
           \o ChunkList_DropTail(data, i + chunk_size, chunk_size)

\* [data[i:i + chunk_size] for i in range(i, len(data), chunk_size)]
RECURSIVE ChunkList(_, _, _)
ChunkList(data, i, chunk_size) ==
    IF i >= Len(data) THEN <<>>
    ELSE <<PySlice(data, i, i + chunk_size)>>
           \o ChunkList(data, i + chunk_size, chunk_size)

PyList(items) == Py("list", items)

\* chunks_raw_pcm, audio_helper.py lines 127-170
ChunksRawPcm(audio, chunk_size) ==
    IF audio.type \notin {"bytes", "bytearray"}
    THEN Dict({<<"success", PyBool(FALSE)>>,
               <<"msg", PyStr("audio must be bytes or bytearray")>>,
               <<"count", PyInt(0)>>, <<"chunks", PyList(<<>>)>>})
    ELSE IF chunk_size.type \notin {"int", "bool"} \/ chunk_size.val <= 0
    THEN Dict({<<"success", PyBool(FALSE)>>,
               <<"msg", PyStr("chunk_size must be a positive integer")>>,
               <<"count", PyInt(0)>>, <<"chunks", PyList(<<>>)>>})
    ELSE LET data == audio.val
             chunks == IF data # <<>> THEN ChunkList(data, 0, chunk_size.val)
                       ELSE <<>>
         IN  Dict({<<"success", PyBool(TRUE)>>,
                   <<"msg", PyStr("Raw PCM chunked successfully")>>,
                   <<"count", PyInt(Len(chunks))>>,
                   <<"chunks", PyList(chunks)>>})

\* -------------------------------------------------- media conversions
\* How the ffmpeg process of a conversion ends: its exit code, what it
\* wrote to stdout before it ended, and its stderr (text that decodes).
PipedRuns ==
    [returncode : {0, 1}, out : {"", "partial", "audio"}, err : {"", "diag"}]

PyBytes(b) == Py("bytes", b)

\* TranscodeRawPcm that hands out what ffmpeg wrote before it failed
TranscodeRawPcm_KeepsOutput(run) ==
    Dict({<<"success", PyBool(run.returncode = 0)>>,
          <<"msg", PyStr(IF run.returncode = 0 THEN "Transcode successful"
                         ELSE "ffmpeg failed")>>,
          <<"error_code", PyStr(run.err)>>,
          <<"data", PyBytes(run.out)>>})

\* transcode_raw_pcm, audio_helper.py lines 51-65
TranscodeRawPcm(run) ==
    IF run.returncode # 0
    THEN Dict({<<"success", PyBool(FALSE)>>, <<"msg", PyStr("ffmpeg failed")>>,
               <<"error_code", PyStr(run.err)>>, <<"data", PyBytes("")>>})
    ELSE Dict({<<"success", PyBool(TRUE)>>, <<"msg", PyStr("Transcode successful")>>,
               <<"error_code", PyStr(run.err)>>, <<"data", PyBytes(run.out)>>})

\* audio_to_raw_pcm, audio_helper.py lines 111-125
AudioToRawPcm(run) ==
    IF run.returncode # 0
    THEN Dict({<<"success", PyBool(FALSE)>>, <<"msg", PyStr("ffmpeg failed")>>,
               <<"error_code", PyStr(run.err)>>, <<"data", PyBytes("")>>})
    ELSE Dict({<<"success", PyBool(TRUE)>>,
               <<"msg", PyStr("Decode to raw PCM successful")>>,
               <<"error_code", PyStr(run.err)>>, <<"data", PyBytes(run.out)>>})

\* How the ffmpeg process of video_convert_ffmpeg ends: its exit code, its
\* stderr, and what it left at temp_output.  A run that exits 0 had an input
\* to read and left a whole file or none.
VideoRuns ==
    {run \in [returncode : {0, 1}, err : {"", "diag"},
              temp : {"absent", "partial", "whole"}] :
        run.returncode = 0 => run.temp # "partial"}

\* st_size // 1024 of the input and of a temp_output of each kind
SizeKb(what) ==
    CASE what = "input" -> 4
      [] what = "whole" -> 2
      [] what = "partial" -> 1

\* a message built from a text and the captured stderr
PyMsg(text, err) == Py("str", <<text, err>>)

VideoResult(success, msg, original_size, converted_size) ==
    Dict({<<"success", PyBool(success)>>, <<"msg", msg>>,
          <<"original_size", PyInt(original_size)>>,
          <<"converted_size", PyInt(converted_size)>>})

\* temp_output after ffmpeg ran with -y: what the run left, or what lay
\* there when the run wrote nothing
TempAfter(run, m) == IF run.temp = "absent" THEN m.temp ELSE run.temp

\* video_convert_ffmpeg, media_helper.py lines 101-142: the result and the
\* files afterwards
VideoConvertFfmpeg(run, m) ==
    LET ran == [m EXCEPT !.temp = TempAfter(run, m)]
    IN  IF run.returncode # 0
        THEN [res |-> VideoResult(FALSE, PyMsg("Conversion failed", run.err), 0, 0),
              media |-> ran]
        ELSE IF m.input = "absent" \/ ran.temp = "absent"
        THEN [res |-> VideoResult(FALSE, PyMsg("Video conversion error", ""), 0, 0),
              media |-> ran]
        ELSE [res |-> VideoResult(TRUE, PyMsg("Converted", ""),
                                  SizeKb("input"), SizeKb(ran.temp)),
              media |-> [input |-> "absent", temp |-> "absent",
                         output |-> ran.temp]]

\* ------------------------------------------------------------ images
\* The paths an image call can name.  Suffixes are lower-case here.
ImgPaths ==
    {p \in [stem : {"a", "b"}, suffix : {".png", ".jpg"}] :
        p.stem = "b" => p.suffix = ".jpg"}

\* output_path = None
NoPath == [stem |-> "", suffix |-> ""]

PngPath == [stem |-> "a", suffix |-> ".png"]

\* What lies at a path: nothing, a PNG image, a JPEG image as it was
\* supplied, or a JPEG this program has encoded.
ImgContents == {"absent", "png", "jpeg", "encoded"}

NoPics == [p \in ImgPaths |-> "absent"]

\* Path.with_suffix(".jpg")
WithSuffixJpg(p) == [p EXCEPT !.suffix = ".jpg"]

\* img.format == "JPEG"
IsJpeg(content) == content \in {"jpeg", "encoded"}

\* How the ffmpeg process of image_convert_ffmpeg ends: its exit code, its
\* stderr, whether it wrote the output, and whether the input can be
\* unlinked afterwards.  A run that fails writes nothing.
ImageRuns ==
    {run \in [returncode : {0, 1}, err : {"", "diag"}, wrote : BOOLEAN,
              unlink : {"ok", "refused"}] :
        run.returncode # 0 => (~run.wrote /\ run.unlink = "ok")}

ImageResult(success, msg) ==
    Dict({<<"success", PyBool(success)>>, <<"msg", msg>>})

\* image_convert_ffmpeg that does not look at the exit code
ImageConvertFfmpeg_IgnoresExit(run, input_path, output_path, p) ==
    LET ran == IF run.wrote THEN [p EXCEPT ![output_path] = "encoded"] ELSE p
    IN  IF ran[input_path] = "absent" \/ run.unlink = "refused"
        THEN [res |-> ImageResult(FALSE, PyMsg("Image conversion error", "")),
              pics |-> ran]
        ELSE [res |-> ImageResult(TRUE, PyMsg("Converted", "")),
              pics |-> [ran EXCEPT ![input_path] = "absent"]]

\* image_convert_ffmpeg, media_helper.py lines 146-176: the result and the
\* files afterwards
ImageConvertFfmpeg(run, input_path, output_path, p) ==
    LET ran == IF run.wrote THEN [p EXCEPT ![output_path] = "encoded"] ELSE p
    IN  IF run.returncode # 0
        THEN [res |-> ImageResult(FALSE, PyMsg("Conversion failed", run.err)),
              pics |-> ran]
        ELSE IF ran[input_path] = "absent" \/ run.unlink = "refused"
        THEN [res |-> ImageResult(FALSE, PyMsg("Image conversion error", "")),
              pics |-> ran]
        ELSE [res |-> ImageResult(TRUE, PyMsg("Converted", "")),
              pics |-> [ran EXCEPT ![input_path] = "absent"]]

\* The filesystem call of image_validate_pillow that is refused, if any.
ImgOs == {"ok", "save_refused", "move_refused", "unlink_refused"}

\* The arguments of image_validate_pillow, with what the opened image
\* makes of max_res (need_resize) and of its EXIF orientation.
ValidateArgs ==
    [input_path : ImgPaths, output_path : ImgPaths \cup {NoPath},
     remove_metadata : BOOLEAN, metadata : {"None", "meta"},
     need_resize : BOOLEAN, orientation_changed : BOOLEAN, os : ImgOs]

\* lines 316-321 and 329-331
FinalOut(input_path, output_path) ==
    IF output_path # NoPath
    THEN IF output_path.suffix # ".jpg" THEN WithSuffixJpg(output_path)
         ELSE output_path
    ELSE WithSuffixJpg(input_path)

\* The mapping image_validate_pillow returns; the sizes and the metadata
\* maps are left out.
ValidateResult(success, msg, resized, converted_to_jpeg, output) ==
    Dict({<<"success", PyBool(success)>>, <<"msg", PyStr(msg)>>,
          <<"resized", resized>>, <<"converted_to_jpeg", converted_to_jpeg>>,
          <<"output", output>>})

ValidationFailed ==
    ValidateResult(FALSE, "Image validation failed", PyNone, PyNone, PyNone)

PyPath(p) == Py("str", p)

\* lines 360-362: the input is a JPEG and no pixel has to change
NoPixelChange(a, is_jpeg_in) ==
    is_jpeg_in /\ ~a.need_resize /\ ~a.orientation_changed

\* pending_rename that forgets the metadata
PendingRename_IgnoresMetadata(a, is_jpeg_in) ==
    NoPixelChange(a, is_jpeg_in)

\* pending_rename, lines 323 and 376
PendingRename(a, is_jpeg_in) ==
    /\ NoPixelChange(a, is_jpeg_in)
    /\ ~(a.remove_metadata \/ a.metadata # "None")

\* _work of image_validate_pillow, media_helper.py lines 313-492: the
\* result and the files afterwards
ImageValidatePillow(a, p) ==
    LET final_out == FinalOut(a.input_path, a.output_path)
        content == p[a.input_path]
        is_jpeg_in == IsJpeg(content)
        pending_rename == PendingRename(a, is_jpeg_in)
        saved == [p EXCEPT ![final_out] = "encoded"]
        converted == ~is_jpeg_in
    IN  IF content = "absent"
        THEN [res |-> ValidationFailed, pics |-> p]
        ELSE IF /\ NoPixelChange(a, is_jpeg_in)
                /\ final_out = a.input_path
                /\ ~a.remove_metadata
                /\ a.metadata = "None"
        THEN [res |-> ValidateResult(TRUE, "No changes needed", PyBool(FALSE),
                                     PyBool(FALSE), PyPath(final_out)),
              pics |-> p]
        ELSE IF pending_rename
        THEN IF a.os = "move_refused"
             THEN [res |-> ValidateResult(FALSE, "Image rename failed",
                                          PyBool(FALSE), PyBool(FALSE), PyNone),
                   pics |-> p]
             ELSE [res |-> ValidateResult(TRUE, "Renamed to .jpg", PyBool(FALSE),
                                          PyBool(FALSE), PyPath(final_out)),
                   pics |-> [p EXCEPT ![final_out] = content,
                                      ![a.input_path] = "absent"]]
        ELSE IF a.os = "save_refused"
        THEN [res |-> ValidationFailed, pics |-> p]
        ELSE IF converted /\ saved[a.input_path] # "absent"
                /\ a.os = "unlink_refused"
        THEN [res |-> ValidationFailed, pics |-> saved]
        ELSE [res |-> ValidateResult(TRUE, "Validated", PyBool(a.need_resize),
                                     PyBool(converted), PyPath(final_out)),
              pics |-> IF converted /\ saved[a.input_path] # "absent"
                       THEN [saved EXCEPT ![a.input_path] = "absent"]
                       ELSE saved]

\* -------------------------------------------------------- thumbnails
MaxSizes == 2

MaxSize == 2

\* the values of quality around the limits 1 and 95
Qualities == {0, 1, 95, 96}

\* The sequences of at most n elements of S.
UpTo(S, n) == UNION {[1..k -> S] : k \in 0..n}

\* The arguments of image_generate_square_thumbnails, whether image_path
\* is a file, and the place in norm_sizes at which building or saving the
\* thumbnail raises (0: nowhere).
ThumbArgs ==
    [image : {"absent", "file"}, sizes : UpTo(0..MaxSize, MaxSizes),
     quality : Qualities, fail_at : 0..MaxSizes]

\* output_dir: whether it exists and the sizes of the thumbnails in it
ThumbDirs ==
    {d \in [exists : BOOLEAN, files : SUBSET (1..MaxSize)] :
        ~d.exists => d.files = {}}

NoThumbDir == [exists |-> FALSE, files |-> {}]

InoErr(msg) == Dict({<<"success", PyBool(FALSE)>>, <<"msg", PyStr(msg)>>})

InoOk(msg, output_paths) ==
    Dict({<<"success", PyBool(TRUE)>>, <<"msg", PyStr(msg)>>,
          <<"output_paths", PyList(output_paths)>>})

\* lines 49-58: the sizes in their order, each once
RECURSIVE NormSizes(_)
NormSizes(sizes) ==
    IF sizes = <<>> THEN <<>>
    ELSE LET norm_sizes == NormSizes(SubSeq(sizes, 1, Len(sizes) - 1))
             v == sizes[Len(sizes)]
         IN  IF \E i \in 1..Len(norm_sizes) : norm_sizes[i] = v THEN norm_sizes
             ELSE Append(norm_sizes, v)

\* lines 114-142: the sizes saved before the loop ends or raises
Saved(norm_sizes, fail_at) ==
    IF fail_at \in 1..Len(norm_sizes) THEN SubSeq(norm_sizes, 1, fail_at - 1)
    ELSE norm_sizes

\* image_generate_square_thumbnails, thumbnail_helper.py lines 19-147: the
\* result and output_dir afterwards.  The return of the finally clause
\* (147) is the one the caller gets, also when the except clause (144) has
\* returned before it.
Thumbnails(a, d) ==
    LET made == [d EXCEPT !.exists = TRUE]
        norm_sizes == NormSizes(a.sizes)
        output_paths == Saved(norm_sizes, a.fail_at)
    IN  IF a.image # "file"
        THEN [res |-> InoErr("Input image not found"), dir |-> d]
        ELSE IF ~(1 <= a.quality /\ a.quality <= 95)
        THEN [res |-> InoErr("Quality must be between 1 and 95"), dir |-> made]
        ELSE IF \E i \in 1..Len(a.sizes) : a.sizes[i] <= 0
        THEN [res |-> InoErr("Size must be positive"), dir |-> made]
        ELSE [res |-> InoOk("Thumbnail generated", output_paths),
              dir |-> [made EXCEPT !.files =
                          @ \cup {output_paths[i] : i \in 1..Len(output_paths)}]]

\* ----------------------------------------------------- configuration
\* Texts are sequences of characters.  An option is a pair of a section
\* and a key; the options of a configuration are pairs of an option and
\* its text, one for an option at most.
CfgSections == {"s", "t"}

CfgKeys == {"k", "j"}

CfgOptions == {<<"s", "k">>, <<"s", "j">>, <<"t", "k">>}

\* the texts a configuration file holds before the helper is constructed
OldTexts == {<<"o">>, <<"1">>}

IniContents ==
    {c \in SUBSET (CfgOptions \X OldTexts) :
        \A e, f \in c : e[1] = f[1] => e = f}

NoIniFile == [exists |-> FALSE, options |-> {}]

IniFile(options) == [exists |-> TRUE, options |-> options]

\* a Python value by its type and the text str() gives for it
PyText(type, text) == Py(type, text)

PyNoneText == PyText("NoneType", <<"N", "o", "n", "e">>)

\* the values handed to set
SetValues ==
    {PyText("str", <<" ", "n", " ">>), PyText("int", <<"5">>), PyNoneText}

\* the fallbacks handed to get and get_bool
Fallbacks ==
    {PyNoneText, PyText("int", <<"5">>), PyText("str", <<"d">>),
     PyText("str", <<" ", "d", " ">>),
     PyText("bool", <<"F", "a", "l", "s", "e">>)}

\* str(value)
PyStrOf(value) == value.repr

RECURSIVE LStrip(_)
LStrip(text) ==
    IF text # <<>> /\ text[1] = " " THEN LStrip(Tail(text)) ELSE text

RECURSIVE RStrip(_)
RStrip(text) ==
    IF text # <<>> /\ text[Len(text)] = " "
    THEN RStrip(SubSeq(text, 1, Len(text) - 1))
    ELSE text

\* str.strip()
Strip(text) == RStrip(LStrip(text))

HasOption(options, section, key) ==
    \E e \in options : e[1] = <<section, key>>

OptionText(options, section, key) ==
    (CHOOSE e \in options : e[1] = <<section, key>>)[2]

\* ConfigParser.get(section, key, fallback=fallback)
ParserGet(options, section, key, fallback) ==
    IF HasOption(options, section, key)
    THEN PyText("str", OptionText(options, section, key))
    ELSE fallback

\* ConfigParser.BOOLEAN_STATES
TrueTexts == {<<"1">>, <<"y", "e", "s">>, <<"t", "r", "u", "e">>, <<"o", "n">>}

FalseTexts == {<<"0">>, <<"n", "o">>, <<"f", "a", "l", "s", "e">>, <<"o", "f", "f">>}

PyTrue == PyText("bool", <<"T", "r", "u", "e">>)

PyFalse == PyText("bool", <<"F", "a", "l", "s", "e">>)

\* get, config_helper.py lines 17-28: .strip() is called on what the
\* parser returns, the fallback included; when that is not a string the
\* AttributeError is caught and the fallback returned
Get(options, section, key, fallback) ==
    LET value == ParserGet(options, section, key, fallback)
    IN  IF value.type = "str" THEN PyText("str", Strip(value.repr))
        ELSE fallback

\* get_bool, lines 30-38
GetBool(options, section, key, fallback) ==
    IF ~HasOption(options, section, key) THEN fallback
    ELSE LET text == OptionText(options, section, key)
         IN  IF text \in TrueTexts THEN PyTrue
             ELSE IF text \in FalseTexts THEN PyFalse
             ELSE fallback

\* self.config[section][key] = text, lines 41-47
SetOption(options, section, key, text) ==
    {e \in options : e[1] # <<section, key>>} \cup {<<<<section, key>>, text>>}

\* save, lines 60-66
Save(cfg, fs) ==
    IF cfg.save_as THEN [fs EXCEPT !.save_as_path = IniFile(cfg.options)]
    ELSE [fs EXCEPT !.path = IniFile(cfg.options)]

\* ConfigParser.read(self.path): what the file holds is put over what the
\* parser holds; a file that is not there is skipped
ParserRead(options, file) ==
    {e \in options : ~\E f \in file.options : f[1] = e[1]} \cup file.options

\* _load, lines 14-15
Load(cfg, fs) == [cfg EXCEPT !.options = ParserRead(@, fs.path)]

\* set, lines 40-51: the helper and the files afterwards
ConfigSet(cfg, fs, section, key, value) ==
    LET assigned == [cfg EXCEPT !.options =
                        SetOption(@, section, key, Strip(PyStrOf(value)))]
        saved == Save(assigned, fs)
    IN  [config |-> Load(assigned, saved), files |-> saved]

\* __init__, lines 5-12
NewConfig(save_as, fs) == Load([save_as |-> save_as, options |-> {}], fs)

\* nothing of the thumbnail and configuration helpers yet
ExtInit ==
    /\ thumb_dir = NoThumbDir
    /\ ini_files = [path |-> NoIniFile, save_as_path |-> NoIniFile]
    /\ config = NewConfig(FALSE, ini_files)

\* no file of a conversion yet
NoMedia == [input |-> "absent", temp |-> "absent", output |-> "absent"]

\* ------------------------------------------------------- helper state

\* everything the helpers act on but the destination of copy_files
HelperInit0 ==
    /\ op = "none"
    /\ result = Dict({})
    /\ arg = "none"
    /\ outdir = {}
    /\ jfile = Absent
    /\ media = NoMedia
    /\ pics = NoPics
    /\ ExtInit

HelperInit ==
    /\ HelperInit0
    /\ dest = {}
    /\ copy_log = Absent

DoRemoveFile(p, os) ==
    /\ op' = "remove_file"
    /\ arg' = [path |-> p, os |-> os]
    /\ result' = RemoveFile(p, disk, os).res
    /\ disk' = RemoveFile(p, disk, os).disk
    /\ UNCHANGED <<outdir, jfile, dest, copy_log, media, extvars, logvars>>

DoRemoveFolder(p, os) ==
    /\ op' = "remove_folder"
    /\ arg' = [path |-> p, os |-> os]
    /\ result' = RemoveFolder(p, disk, os).res
    /\ disk' = RemoveFolder(p, disk, os).disk
    /\ UNCHANGED <<outdir, jfile, dest, copy_log, media, extvars, logvars>>

\* copy_files is called once, on the directory Init has set up
DoCopyFiles(fs, rename_files) ==
    /\ op = "none"
    /\ op' = "copy_files"
    /\ arg' = [files |-> fs, rename_files |-> rename_files, to_path |-> dest,
               old_log |-> copy_log]
    /\ result' = CopyFiles(fs, rename_files, dest, copy_log).res
    /\ dest' = CopyFiles(fs, rename_files, dest, copy_log).dest
    /\ copy_log' = CopyFiles(fs, rename_files, dest, copy_log).log
    /\ UNCHANGED <<outdir, jfile, disk, media, extvars, logvars>>

DoChunksRawPcm(audio, chunk_size) ==
    /\ op' = "chunks_raw_pcm"
    /\ arg' = [audio |-> audio, chunk_size |-> chunk_size]
    /\ result' = ChunksRawPcm(audio, chunk_size)
    /\ UNCHANGED <<outdir, jfile, fsvars, extvars, logvars>>

DoTranscodeRawPcm(run) ==
    /\ op' = "transcode_raw_pcm"
    /\ arg' = run
    /\ result' = TranscodeRawPcm(run)
    /\ UNCHANGED <<outdir, jfile, fsvars, extvars, logvars>>

DoAudioToRawPcm(run) ==
    /\ op' = "audio_to_raw_pcm"
    /\ arg' = run
    /\ result' = AudioToRawPcm(run)
    /\ UNCHANGED <<outdir, jfile, fsvars, extvars, logvars>>

\* a run can only exit 0 when there is an input for it to read
DoVideoConvertFfmpeg(run) ==
    /\ run.returncode = 0 => media.input = "file"
    /\ op' = "video_convert_ffmpeg"
    /\ arg' = run
    /\ result' = VideoConvertFfmpeg(run, media).res
    /\ media' = VideoConvertFfmpeg(run, media).media
    /\ UNCHANGED <<outdir, jfile, disk, dest, copy_log, extvars, logvars>>

\* ffmpeg exits 0 only when it had an input to read, and it refuses to
\* write onto its input
DoImageConvertFfmpeg(run, input_path, output_path) ==
    /\ run.returncode = 0 =>
          (pics[input_path] # "absent" /\ input_path # output_path)
    /\ op' = "image_convert_ffmpeg"
    /\ arg' = [returncode |-> run.returncode, err |-> run.err,
               wrote |-> run.wrote, unlink |-> run.unlink,
               input_path |-> input_path, output_path |-> output_path]
    /\ result' = ImageConvertFfmpeg(run, input_path, output_path, pics).res
    /\ pics' = ImageConvertFfmpeg(run, input_path, output_path, pics).pics
    /\ UNCHANGED <<outdir, jfile, fsvars, thumb_dir, config, ini_files, logvars>>

DoImageValidatePillow(a) ==
    /\ op' = "image_validate_pillow"
    /\ arg' = a
    /\ result' = ImageValidatePillow(a, pics).res
    /\ pics' = ImageValidatePillow(a, pics).pics
    /\ UNCHANGED <<outdir, jfile, fsvars, thumb_dir, config, ini_files, logvars>>

DoThumbnails(a) ==
    /\ op' = "image_generate_square_thumbnails"
    /\ arg' = a
    /\ result' = Thumbnails(a, thumb_dir).res
    /\ thumb_dir' = Thumbnails(a, thumb_dir).dir
    /\ UNCHANGED <<outdir, jfile, fsvars, pics, config, ini_files, logvars>>

\* set is called once, on the helper Init has constructed
DoConfigSet(section, key, value) ==
    /\ op = "none"
    /\ op' = "config_set"
    /\ arg' = [section |-> section, key |-> key, value |-> value,
               path |-> ini_files.path]
    /\ result' = PyNoneText
    /\ config' = ConfigSet(config, ini_files, section, key, value).config
    /\ ini_files' = ConfigSet(config, ini_files, section, key, value).files
    /\ UNCHANGED <<outdir, jfile, fsvars, pics, thumb_dir, logvars>>

DoConfigGet(section, key, fallback) ==
    /\ op' = "config_get"
    /\ arg' = [section |-> section, key |-> key, fallback |-> fallback]
    /\ result' = Get(config.options, section, key, fallback)
    /\ UNCHANGED <<outdir, jfile, fsvars, pics, thumb_dir, config, ini_files, logvars>>

DoConfigGetBool(section, key, fallback) ==
    /\ op' = "config_get_bool"
    /\ arg' = [section |-> section, key |-> key, fallback |-> fallback]
    /\ result' = GetBool(config.options, section, key, fallback)
    /\ UNCHANGED <<outdir, jfile, fsvars, pics, thumb_dir, config, ini_files, logvars>>

DoMoveFile(from, to, os) ==
    /\ op' = "move_file"
    /\ arg' = [path |-> from, to |-> to, os |-> os]
    /\ result' = MoveFile(from, to, disk, os).res
    /\ disk' = MoveFile(from, to, disk, os).disk
    /\ UNCHANGED <<outdir, jfile, dest, copy_log, media, extvars, logvars>>

DoUnzip(z) ==
    /\ op' = "unzip"
    /\ result' = Unzip(z, outdir).res
    /\ outdir' = Unzip(z, outdir).out
    /\ arg' = z
    /\ UNCHANGED <<jfile, fsvars, extvars, logvars>>

DoStringToDict(s) ==
    /\ op' = "string_to_dict"
    /\ result' = StringToDict(s)
    /\ arg' = s
    /\ UNCHANGED <<outdir, jfile, fsvars, extvars, logvars>>

DoJsonToString(v) ==
    /\ op' = "json_to_string"
    /\ result' = JsonToString(v)
    /\ arg' = v
    /\ UNCHANGED <<outdir, jfile, fsvars, extvars, logvars>>

DoSaveStringAsJson(s) ==
    /\ op' = "save_string_as_json"
    /\ result' = SaveStringAsJson(s, jfile).res
    /\ jfile' = SaveStringAsJson(s, jfile).file
    /\ arg' = s
    /\ UNCHANGED <<outdir, fsvars, extvars, logvars>>

DoSaveJsonAsJson(v) ==
    /\ op' = "save_json_as_json"
    /\ result' = SaveJsonAsJson(v, jfile).res
    /\ jfile' = SaveJsonAsJson(v, jfile).file
    /\ arg' = v
    /\ UNCHANGED <<outdir, fsvars, extvars, logvars>>

DoReadJsonFromFile ==
    /\ op' = "read_json_from_file"
    /\ result' = ReadJsonFromFile(jfile)
    /\ arg' = "file_path"
    /\ UNCHANGED <<outdir, jfile, fsvars, extvars, logvars>>

DoValidateVideoResFps(v) ==
    /\ op' = "validate_video_res_fps"
    /\ result' = ValidateVideoResFps(v)
    /\ arg' = v
    /\ UNCHANGED <<outdir, jfile, fsvars, extvars, logvars>>

\* --------------------------------------------------------- specifications
Init == LogInit /\ HelperInit /\ disk = NoDisk

TaskStep(t, argset) ==
    \/ Create(t)
    \/ \E a \in argset : AddCall(t, a)
    \/ ExecOpenW(t)
    \/ ResumeCreated(t)
    \/ ExecOpenA(t)
    \/ ExecWrite(t)
    \/ ExecClose(t)

\* one task: every add() returns before the next is called
SeqNext ==
    \/ TaskStep(1, AddArgs)
    \/ Restart

Spec == Init /\ [][SeqNext]_vars

\* several tasks call add() on the same instance
ConcNext == \E t \in Tasks : TaskStep(t, PlainArgs)

SpecConc == Init /\ [][ConcNext]_vars

\* one task, in a directory that others put files into
DirNext ==
    \/ TaskStep(1, PlainArgs)
    \/ Restart
    \/ \E n \in ForeignNames, len \in {0, MaxFileSizeBytes} : ForeignCreate(n, len)

SpecDir == Init /\ [][DirNext]_vars

\* the stateless helpers
HelperNext ==
    \/ \E z \in ZipInputs : DoUnzip(z)
    \/ \E s \in JsonTexts : DoStringToDict(s)
    \/ \E v \in JsonData : DoJsonToString(v)
    \/ \E s \in JsonTexts : DoSaveStringAsJson(s)
    \/ \E v \in JsonData : DoSaveJsonAsJson(v)
    \/ DoReadJsonFromFile
    \/ \E v \in VideoInputs : DoValidateVideoResFps(v)

\* the helpers are called in a process that has no log stream yet
HelpersInit == Init /\ files = <<>>

SpecHelpers == HelpersInit /\ [][HelperNext]_vars

\* remove_file, remove_folder and move_file on a disk that holds something
FilesInit == LogInit /\ files = <<>> /\ HelperInit /\ disk \in Disks

FilesNext ==
    \/ \E p \in Paths, os \in {"ok", "refused"} : DoRemoveFile(p, os)
    \/ \E p \in Paths, os \in OsOutcomes : DoRemoveFolder(p, os)
    \/ \E from \in Paths, to \in Paths, os \in {"ok", "refused"} :
           DoMoveFile(from, to, os)

SpecFiles == FilesInit /\ [][FilesNext]_vars

\* copy_files on every traversal, into an empty or a used destination
CopyInit ==
    /\ LogInit
    /\ files = <<>>
    /\ HelperInit0
    /\ disk = NoDisk
    /\ dest \in Destinations
    /\ copy_log \in {Absent, OldLog}

\* the call is made once: no traversal is left to try after it
CopyInputs == IF op = "none" THEN Traversals ELSE {}

CopyNext == \E fs \in CopyInputs, rename_files \in BOOLEAN : DoCopyFiles(fs, rename_files)

SpecCopy == CopyInit /\ [][CopyNext]_vars

\* the audio helper and the ffmpeg conversions; the video to convert is
\* there
MediaInit ==
    /\ LogInit
    /\ files = <<>>
    /\ op = "none"
    /\ result = Dict({})
    /\ arg = "none"
    /\ outdir = {}
    /\ jfile = Absent
    /\ dest = {}
    /\ copy_log = Absent
    /\ disk = NoDisk
    /\ media = [input |-> "file", temp |-> "absent", output |-> "absent"]
    /\ pics = [NoPics EXCEPT ![PngPath] = "png"]
    /\ ExtInit

MediaNext ==
    \/ \E audio \in AudioArgs, chunk_size \in ChunkSizeArgs :
           DoChunksRawPcm(audio, chunk_size)
    \/ \E run \in PipedRuns : DoTranscodeRawPcm(run)
    \/ \E run \in PipedRuns : DoAudioToRawPcm(run)
    \/ \E run \in VideoRuns : DoVideoConvertFfmpeg(run)

SpecMedia == MediaInit /\ [][MediaNext]_vars

\* the conversions that run ffmpeg, on the video and the image that are
\* there
ConvertNext ==
    \/ \E run \in PipedRuns : DoTranscodeRawPcm(run)
    \/ \E run \in PipedRuns : DoAudioToRawPcm(run)
    \/ \E run \in VideoRuns : DoVideoConvertFfmpeg(run)
    \/ \E run \in ImageRuns, input_path, output_path \in ImgPaths :
           DoImageConvertFfmpeg(run, input_path, output_path)

SpecConvert == MediaInit /\ [][ConvertNext]_vars

\* the image helpers, on any content of the directory
ImageInit ==
    /\ LogInit
    /\ files = <<>>
    /\ op = "none"
    /\ result = Dict({})
    /\ arg = "none"
    /\ outdir = {}
    /\ jfile = Absent
    /\ dest = {}
    /\ copy_log = Absent
    /\ disk = NoDisk
    /\ media = NoMedia
    /\ ExtInit
    /\ pics \in [ImgPaths -> ImgContents]

\* one call is made on the directory Init has set up
ValidateInputs == IF op = "none" THEN ValidateArgs ELSE {}

ConvertInputs == IF op = "none" THEN ImageRuns ELSE {}

ImageNext ==
    \/ \E a \in ValidateInputs : DoImageValidatePillow(a)
    \/ \E run \in ConvertInputs, input_path, output_path \in ImgPaths :
           DoImageConvertFfmpeg(run, input_path, output_path)

SpecImage == ImageInit /\ [][ImageNext]_vars

\* before a call of a helper that keeps no file of the earlier sections
QuietInit ==
    /\ LogInit
    /\ files = <<>>
    /\ op = "none"
    /\ result = Dict({})
    /\ arg = "none"
    /\ outdir = {}
    /\ jfile = Absent
    /\ dest = {}
    /\ copy_log = Absent
    /\ disk = NoDisk
    /\ media = NoMedia
    /\ pics = NoPics

\* the thumbnail helper, on any content of output_dir
ThumbInit ==
    /\ QuietInit
    /\ thumb_dir \in ThumbDirs
    /\ ini_files = [path |-> NoIniFile, save_as_path |-> NoIniFile]
    /\ config = NewConfig(FALSE, ini_files)

\* one call is made on the directory Init has set up
ThumbInputs == IF op = "none" THEN ThumbArgs ELSE {}

ThumbNext == \E a \in ThumbInputs : DoThumbnails(a)

SpecThumb == ThumbInit /\ [][ThumbNext]_vars

\* the configuration helper, constructed on any content of its file, with
\* save_as off or on
ConfigInit ==
    /\ QuietInit
    /\ thumb_dir = NoThumbDir
    /\ \E file \in {NoIniFile} \cup {IniFile(c) : c \in IniContents},
          save_as \in BOOLEAN :
          /\ ini_files = [path |-> file, save_as_path |-> NoIniFile]
          /\ config = NewConfig(save_as, ini_files)

ConfigNext ==
    \/ \E section \in CfgSections, key \in CfgKeys, value \in SetValues :
           DoConfigSet(section, key, value)
    \/ \E section \in CfgSections, key \in CfgKeys, fallback \in Fallbacks :
           DoConfigGet(section, key, fallback)
    \/ \E section \in CfgSections, key \in CfgKeys, fallback \in Fallbacks :
           DoConfigGetBool(section, key, fallback)

SpecConfig == ConfigInit /\ [][ConfigNext]_vars

\* ------------------------------------------------------------- claims
\* the number a segment name ends in
SegNo(name) == ToInt(NameDigits(name.stem))

\* {logName}_{5 digits}.inolog
IsSegmentName(name) ==
    /\ name.ext = LogExt
    /\ NamePrefix(name.stem) = LogName \o <<"_">>
    /\ Len(NameDigits(name.stem)) = 5

\* data is a run of whole records: every byte stands between its record's
\* neighbouring bytes
WholeRecords(data) ==
    \A i \in 1..Len(data) :
        LET b == data[i]
        IN  /\ b.pos > 1 =>
                 i > 1 /\ data[i - 1] = Byte(b.id, b.pos - 1, b.len)
            /\ b.pos < b.len =>
                 i < Len(data) /\ data[i + 1] = Byte(b.id, b.pos + 1, b.len)

\* the places in the directory where a byte of record id stands
BytesOf(id) ==
    UNION {{<<i, j>> : j \in {k \in 1..Len(files[i].data) : files[i].data[k].id = id}} :
           i \in 1..Len(files)}

\* add() finds the current segment full: the step in which task t calls
\* add() on an initialized stream whose segment is at or above the maximum
FindsFull(t) ==
    /\ pc[t] = "idle"
    /\ pc'[t] # "idle"
    /\ calls' = calls + 1
    /\ initialized
    /\ Exists(files, log_file)
    /\ StSize(files, log_file) >= MaxFileSizeBytes

\* C1: when add() finds the current segment, of suffix k, at or above
\* max_file_size_bytes, it turns to the segment {logName}_{k+1 in 5 digits}
\* .inolog, which did not exist; the segment is then created empty as the
\* newest file of the directory, and the record is written to it.
C1_RotationIncrements ==
    [][\A t \in Tasks :
        /\ FindsFull(t) =>
             /\ IsSegmentName(log_file')
             /\ SegNo(log_file') = SegNo(log_file) + 1
             /\ ~Exists(files, log_file')
             /\ pc'[t] = "rot_w"
             /\ opath'[t] = log_file'
        /\ (pc[t] = "rot_w" /\ pc'[t] = "rot_c") =>
             /\ Len(files') = Len(files) + 1
             /\ files'[Len(files')] = File(log_file, <<>>)
        /\ (pc[t] = "rot_c" /\ pc'[t] # "rot_c") =>
             /\ pc'[t] = "open_a"
             /\ opath'[t] = log_file
             /\ log_file' = log_file
      ]_vars

\* a rotation by add() that carried the suffix from OldSegments to the next
C1_Witness ==
    /\ pc[1] = "rot_c"
    /\ SegNo(log_file) = OldSegments + 1
    /\ Exists(files, log_file)
    /\ StSize(files, log_file) = 0

\* C2: after n add() calls have returned, the segments hold exactly the n
\* records of those calls, each once, whole and newline-terminated inside one
\* segment; a call that has not returned has written nothing.
C2_OneWholeRecordPerAdd ==
    /\ \A i \in 1..Len(files) : WholeRecords(files[i].data)
    /\ \A id \in 1..MaxAdds :
        IF id <= done
        THEN /\ \E i \in 1..Len(files) : \A p \in BytesOf(id) : p[1] = i
             /\ \E p \in BytesOf(id) :
                    LET b == files[p[1]].data[p[2]]
                    IN  /\ b.pos = 1
                        /\ Cardinality(BytesOf(id)) = b.len
        ELSE BytesOf(id) = {}

\* three calls have returned and their records lie in two segments
C2_Witness ==
    /\ done = 3
    /\ \E i, j \in 1..Len(files) :
        /\ i # j
        /\ \E b \in 1..Len(files[i].data) : files[i].data[b].id > 0
        /\ \E b \in 1..Len(files[j].data) : files[j].data[b].id > 0

\* C3: no step removes a file of the directory or changes or removes a byte
\* that a file holds; files only grow at the end.
C3_AppendOnly ==
    [][\A i \in 1..Len(files) :
        /\ i <= Len(files')
        /\ files'[i].name = files[i].name
        /\ Len(files'[i].data) >= Len(files[i].data)
        /\ SubSeq(files'[i].data, 1, Len(files[i].data)) = files[i].data
      ]_vars

\* C4: no record is written to a segment that is at or above
\* max_file_size_bytes at the moment of the write.
C4_NoWriteToFullSegment ==
    [][\A t \in Tasks :
        (pc[t] = "close" /\ pc'[t] = "idle") =>
            StSize(files, opath[t]) < MaxFileSizeBytes
      ]_vars

\* C5: the open-write-close of one add() is indivisible, no other call has
\* the segment open meanwhile, and every segment is a run of whole records.
C5_IndivisibleAppend ==
    /\ Cardinality({t \in Tasks : pc[t] \in {"write", "close"}}) <= 1
    /\ \A i \in 1..Len(files) : WholeRecords(files[i].data)

\* the step in which a fresh instance settles on its first segment
FirstUse == ~initialized /\ log_file = NoFile /\ log_file' # NoFile

C7_OwnSegmentName ==
    /\ log_file # NoFile => IsSegmentName(log_file)
    /\ \A t \in Tasks : opath[t] # NoFile => IsSegmentName(opath[t])

\* C8: every result mapping a helper returns has a bool `success` and a
\* str `msg`.
C8_ResultContract ==
    op # "none" =>
        /\ "success" \in DOMAIN result
        /\ result["success"].type = "bool"
        /\ "msg" \in DOMAIN result
        /\ result["msg"].type = "str"

\* C9: the category of the record is the category passed to add(); when
\* none is passed it is ERROR for a dict whose success field is false and
\* INFO for a dict whose success field is true and for every payload
\* without a success field.
C9_DefaultCategory ==
    \A t \in Tasks :
        line[t] # NoLine =>
            /\ "category" \in DOMAIN line[t].json
            /\ line[t].json["category"] =
                 IF args[t].category \in LogCategory THEN args[t].category
                 ELSE IF args[t].log_data = "{'success': False}" THEN "ERROR"
                 ELSE "INFO"

\* a record is being written for a failed result passed without a category
C9_Witness ==
    /\ pc[1] = "close"
    /\ args[1].category = None
    /\ args[1].log_data = "{'success': False}"
    /\ line[1].json["category"] = "ERROR"

C11_FailureLeavesDisk ==
    [][((op' \in {"remove_file", "move_file"} /\ disk[arg'.path] # "file")
         \/ (op' = "remove_folder" /\ disk[arg'.path] # "dir"))
        => /\ result'["success"] = PyBool(FALSE)
           /\ disk' = disk
      ]_vars

\* move_file was given a missing from_path and a to_path whose directory is
\* missing: it failed and the directory was not made
C11_Witness ==
    /\ op = "move_file"
    /\ arg.to = "d/a"
    /\ result["msg"] = PyStr("not exist")
    /\ disk[arg.path] = "absent"
    /\ disk["d"] = "absent"

\* the regular files among the entries under a directory
RegularFiles(entries) == {e \in entries : ~IsDirEntry(e)}

\* C12: when unzip returns success, files_extracted is the number of
\* regular files under the output directory afterwards; directories are not
\* counted.
C12_FilesExtractedCount ==
    (op = "unzip" /\ result["success"] = PyBool(TRUE)) =>
        result["files_extracted"] = PyInt(Cardinality(RegularFiles(outdir)))

\* C13: unzip of a source that is not a file or has not the suffix .zip
\* fails and extracts nothing; and an extraction that ran without error and
\* left no regular file under the output directory is a failure.
C13_UnzipFailures ==
    [][op' = "unzip" =>
        /\ (arg'.kind # "file" \/ arg'.suffix # ".zip") =>
              /\ result'["success"] = PyBool(FALSE)
              /\ outdir' = outdir
        /\ (arg'.kind = "file" /\ arg'.suffix = ".zip" /\ arg'.valid
              /\ RegularFiles(outdir') = {}) =>
              result'["success"] = PyBool(FALSE)
      ]_vars

\* <prefix_name>_<i in three digits>, for i below 10
Numbered(i) == <<"F", "i", "l", "e", "_", "0", "0">> \o <<DigitChar(i)>>

\* the extension of each file name as it stands in the name
OwnExtension(name) ==
    CASE name = <<"a", ".", "J">> -> <<".", "J">>
      [] name = <<"b", ".", "t">> -> <<".", "t">>
      [] name = <<"R">> -> <<>>
      [] name = <<" ", ".", "t">> -> <<".", "t">>

\* what copy_files puts after the index: the extension in lower case, the
\* whole name for a file without extension
AppendedExtension(name) ==
    CASE name = <<"a", ".", "J">> -> <<".", "j">>
      [] name = <<"b", ".", "t">> -> <<".", "t">>
      [] name = <<"R">> -> <<"R">>
      [] name = <<" ", ".", "t">> -> <<".", "t">>

\* the indices of the traversal whose copy succeeded
Copied(fs) == {i \in 1..Len(fs) : fs[i].st = "ok"}

\* C14 as claimed: with rename_files=True the i-th file of the traversal is
\* copied to <prefix_name>_<i in 3 digits><its extension>, and the
\* destination holds exactly those names besides what it held before.
C14_RenamedOwnExtension ==
    (op = "copy_files" /\ arg.rename_files) =>
        dest = arg.to_path
                 \cup {Numbered(i) \o OwnExtension(arg.files[i].name) :
                          i \in Copied(arg.files)}

\* C14 amended: with rename_files=True the i-th file of the traversal is
\* copied to <prefix_name>_<i in 3 digits><ext>, where <ext> is the file's
\* extension in lower case, or the whole file name when the file has no
\* extension; the destination holds exactly those names besides what it
\* held before.
C14_RenamedLowerExtension ==
    (op = "copy_files" /\ arg.rename_files) =>
        dest = arg.to_path
                 \cup {Numbered(i) \o AppendedExtension(arg.files[i].name) :
                          i \in Copied(arg.files)}

\* a.J, R and b.t were copied with rename_files=True into an empty
\* destination, which now holds File_001.j, File_002R and File_003.t
C14_Witness ==
    /\ op = "copy_files"
    /\ arg.rename_files
    /\ arg.to_path = {}
    /\ arg.files = << [name |-> <<"a", ".", "J">>, st |-> "ok"],
                      [name |-> <<"R">>, st |-> "ok"],
                      [name |-> <<"b", ".", "t">>, st |-> "ok"] >>
    /\ dest = { <<"F", "i", "l", "e", "_", "0", "0", "1", ".", "j">>,
                <<"F", "i", "l", "e", "_", "0", "0", "2", "R">>,
                <<"F", "i", "l", "e", "_", "0", "0", "3", ".", "t">> }

\* the lines copy_files wrote in this call: none when the traversal was
\* empty and the log was left alone
LinesWritten == IF arg.files = <<>> THEN <<>> ELSE copy_log

\* the positions in the written log of the result line of file i
ResultLinesOf(i) ==
    {j \in 1..Len(LinesWritten) :
        /\ LinesWritten[j].idx = i
        /\ LinesWritten[j].kind \in {"copied", "failed"}}

\* C15: every file of the traversal that is there at its turn has its copy
\* attempted, whatever happened to the files before it (its attempt is in
\* the log, and its copy is in the destination when the attempt succeeded);
\* and the result is a failure exactly when at least one attempt failed.
C15_NoShortCircuit ==
    op = "copy_files" =>
        /\ \A i \in 1..Len(arg.files) :
              arg.files[i].st # "gone" =>
                 /\ \E j \in ResultLinesOf(i) :
                       /\ LinesWritten[j].kind =
                            (IF arg.files[i].st = "ok" THEN "copied" ELSE "failed")
                       /\ arg.files[i].st = "ok" => LinesWritten[j].name \in dest
        /\ result["success"] = PyBool(FALSE)
             <=> \E i \in 1..Len(arg.files) : arg.files[i].st = "fail"

\* the first copy failed, the second was made all the same, and the result
\* is a failure
C15_Witness ==
    /\ op = "copy_files"
    /\ Len(arg.files) = 2
    /\ arg.files[1].st = "fail"
    /\ arg.files[2].st = "ok"
    /\ arg.to_path = {}
    /\ Cardinality(dest) = 1
    /\ copy_log[Len(copy_log)].kind = "copied"
    /\ copy_log[Len(copy_log)].idx = 2
    /\ result["success"] = PyBool(FALSE)

\* C16 as claimed: after copy_files, copy_log.txt holds exactly one line per
\* file of the traversal, in order, recording the file's copy as a success
\* or as a failure.
C16_OneLinePerFile ==
    op = "copy_files" =>
        /\ copy_log # Absent
        /\ Len(copy_log) = Len(arg.files)
        /\ \A i \in 1..Len(arg.files) :
              /\ i <= Len(copy_log)
              /\ copy_log[i].idx = i
              /\ copy_log[i].kind \in {"copied", "failed"}

\* C16 amended: when the traversal holds a file, copy_files replaces
\* copy_log.txt by the lines of this call, grouped by file in traversal
\* order: for a file whose copy was attempted exactly one result line (copied
\* or failed), standing last in the group after the warning lines (no
\* extension, empty name, destination exists); for a file that is gone at
\* its turn the single warning line "not a file".  When the traversal is
\* empty the log is not written.
C16_LogLines ==
    op = "copy_files" =>
        IF arg.files = <<>> THEN copy_log = arg.old_log
        ELSE /\ \A j \in 1..Len(copy_log) : copy_log[j].idx \in 1..Len(arg.files)
             /\ \A j \in 1..Len(copy_log), k \in 1..Len(copy_log) :
                   j < k => copy_log[j].idx <= copy_log[k].idx
             /\ \A i \in 1..Len(arg.files) :
                   LET group == {j \in 1..Len(copy_log) : copy_log[j].idx = i}
                       last == CHOOSE j \in group : \A k \in group : k <= j
                   IN  /\ group # {}
                       /\ IF arg.files[i].st = "gone"
                          THEN /\ Cardinality(group) = 1
                               /\ copy_log[last].kind = "not_a_file"
                          ELSE /\ ResultLinesOf(i) = {last}
                               /\ copy_log[last].kind =
                                    (IF arg.files[i].st = "ok" THEN "copied"
                                     ELSE "failed")
                               /\ \A j \in group \ {last} :
                                     copy_log[j].kind \in
                                        {"no_extension", "empty_name", "exists"}

\* the file R, which has no extension, was copied over an old log: the new
\* log holds a warning line and the result line, and nothing of the old log
C16_Witness ==
    /\ op = "copy_files"
    /\ arg.old_log = OldLog
    /\ arg.files = << [name |-> <<"R">>, st |-> "ok"] >>
    /\ Len(copy_log) = 2
    /\ copy_log[1].kind = "no_extension"
    /\ copy_log[2].kind = "copied"

\* ceil(n / d) for d > 0
CeilDiv(n, d) == (n + d - 1) \div d

RECURSIVE Concat(_)
Concat(chunks) ==
    IF chunks = <<>> THEN <<>> ELSE Head(chunks) \o Concat(Tail(chunks))

\* chunks_raw_pcm was given bytes and a positive integer chunk size
ChunkedValid ==
    /\ op = "chunks_raw_pcm"
    /\ arg.audio.type \in {"bytes", "bytearray"}
    /\ arg.chunk_size.type = "int"
    /\ arg.chunk_size.val > 0

\* C17: chunks_raw_pcm of N bytes with chunk size S > 0 returns success with
\* count = len(chunks) = ceil(N / S); no chunk at all for N = 0.
C17_ChunkCount ==
    ChunkedValid =>
        /\ result["success"] = PyBool(TRUE)
        /\ result["count"] =
             PyInt(CeilDiv(Len(arg.audio.val), arg.chunk_size.val))
        /\ Len(result["chunks"].repr) =
             CeilDiv(Len(arg.audio.val), arg.chunk_size.val)
        /\ arg.audio.val = <<>> => result["chunks"].repr = <<>>

\* three bytes in chunks of two: two chunks, the last one short
C17_Witness ==
    /\ ChunkedValid
    /\ Len(arg.audio.val) = 3
    /\ arg.chunk_size.val = 2
    /\ result["count"] = PyInt(2)
    /\ Len(result["chunks"].repr[2]) = 1

\* C18: the chunks chunks_raw_pcm returns, concatenated in order, are the
\* byte sequence it was given.
C18_ChunksConcatenate ==
    ChunkedValid => Concat(result["chunks"].repr) = arg.audio.val

\* the three bytes 1, 0, 1 in chunks of two: <<1, 0>> and <<1>>
C18_Witness ==
    /\ ChunkedValid
    /\ arg.audio.val = <<1, 0, 1>>
    /\ arg.chunk_size.val = 2
    /\ result["chunks"].repr = << <<1, 0>>, <<1>> >>

\* the step in which read_json_from_file reads the file that
\* save_json_as_json has just written for a value json can serialize
SavedThenRead ==
    /\ op = "save_json_as_json"
    /\ Serializable(arg)
    /\ op' = "read_json_from_file"

JsonValues == {"None", "True", "1", "1.5", "'s'", "[1]", "{'k': 1}", "[{'k': None}]"}

C20_NonZeroExitFails ==
    /\ (op \in {"transcode_raw_pcm", "audio_to_raw_pcm"} /\ arg.returncode # 0) =>
          /\ result["success"] = PyBool(FALSE)
          /\ result["error_code"] = PyStr(arg.err)
          /\ result["data"] = PyBytes("")
    /\ (op = "video_convert_ffmpeg" /\ arg.returncode # 0) =>
          /\ result["success"] = PyBool(FALSE)
          /\ result["msg"].repr[2] = arg.err
          /\ result["original_size"] = PyInt(0)
          /\ result["converted_size"] = PyInt(0)

\* ffmpeg wrote part of its output and exited with 1 in transcode_raw_pcm:
\* the failure carries the stderr text and no data
C20_Witness ==
    /\ op = "transcode_raw_pcm"
    /\ arg.returncode = 1
    /\ arg.out = "partial"
    /\ arg.err = "diag"
    /\ result["success"] = PyBool(FALSE)
    /\ result["error_code"] = PyStr("diag")
    /\ result["data"] = PyBytes("")

\* C27: over a sequence of add() calls the number of the current segment
\* never decreases, and every byte that is written goes to the current
\* segment, which is the highest-numbered file of the directory: a segment
\* the stream has rotated away from is not appended to again.
C27_SuffixNeverDecreases ==
    [][/\ (log_file # NoFile /\ log_file' # NoFile) =>
              SegNo(log_file') >= SegNo(log_file)
       /\ \A i \in 1..Len(files) :
              files'[i].data # files[i].data =>
                 /\ files[i].name = log_file
                 /\ \A j \in 1..Len(files) :
                        SegNo(files[j].name) <= SegNo(log_file)
      ]_vars

\* the stream rotated from the last old segment to the next one and two
\* add() calls have appended there since
C27_Witness ==
    /\ restarts = 0
    /\ pc[1] = "idle"
    /\ SegNo(log_file) = OldSegments + 1
    /\ Exists(files, log_file)
    /\ \E a, b \in 1..StSize(files, log_file) :
          LET data == files[IndexOf(files, log_file)].data
          IN  /\ data[a].id > 0
              /\ data[b].id > data[a].id

\* C30: when copy_files into an empty destination returns success, the
\* destination holds as many files as source files were copied: no two of
\* them went to the same name.
C30_DistinctDestinations ==
    (op = "copy_files" /\ arg.to_path = {} /\ result["success"] = PyBool(TRUE)) =>
        Cardinality(dest) = Cardinality(Copied(arg.files))

\* the wrappers that run ffmpeg and report how the conversion went
FfmpegWrappers ==
    {"transcode_raw_pcm", "audio_to_raw_pcm", "video_convert_ffmpeg",
     "image_convert_ffmpeg"}

\* C21, as stated: a conversion wrapper returns success exactly when the
\* process exited with code 0.
C21_SuccessIffExitZero ==
    op \in FfmpegWrappers =>
        (result["success"] = PyBool(TRUE) <=> arg.returncode = 0)

\* C21: a conversion wrapper returns success only when the process exited
\* with code 0.  The audio wrappers return success whenever it did; the
\* video and image wrappers also fail after exit code 0, with their
\* "conversion error" message, when a file step that follows raises.
C21_SuccessOnlyIfExitZero ==
    op \in FfmpegWrappers =>
        /\ result["success"] = PyBool(TRUE) => arg.returncode = 0
        /\ (op \in {"transcode_raw_pcm", "audio_to_raw_pcm"} /\ arg.returncode = 0)
              => result["success"] = PyBool(TRUE)
        /\ (op = "video_convert_ffmpeg" /\ arg.returncode = 0
               /\ result["success"] = PyBool(FALSE))
              => result["msg"] = PyMsg("Video conversion error", "")
        /\ (op = "image_convert_ffmpeg" /\ arg.returncode = 0
               /\ result["success"] = PyBool(FALSE))
              => result["msg"] = PyMsg("Image conversion error", "")

\* ffmpeg exited 0, the input could not be unlinked, and the image wrapper
\* returned a failure
C21_Witness ==
    /\ op = "image_convert_ffmpeg"
    /\ arg.returncode = 0
    /\ arg.unlink = "refused"
    /\ result["success"] = PyBool(FALSE)

\* the path an image call writes its JPEG to
TargetOf(o, a) ==
    IF o = "image_validate_pillow" THEN FinalOut(a.input_path, a.output_path)
    ELSE a.output_path

ImageOps == {"image_validate_pillow", "image_convert_ffmpeg"}

\* C22: an image call that deletes a source that is not a JPEG leaves the
\* converted JPEG at its target: the source is never gone while the
\* converted output is absent.
C22_SourceDeletedAfterOutput ==
    [][(/\ op' \in ImageOps
        /\ pics[arg'.input_path] = "png"
        /\ pics'[arg'.input_path] = "absent")
          => pics'[TargetOf(op', arg')] = "encoded"
      ]_vars

\* C23: on a JPEG input that needs neither resize nor orientation
\* correction, image_validate_pillow without metadata and without
\* remove_metadata leaves every file as it was or only moves the input to
\* the target, and with metadata or remove_metadata it writes a newly
\* encoded JPEG to the target unless the save is refused.
C23_RenameOrReencode ==
    [][(/\ op' = "image_validate_pillow"
        /\ IsJpeg(pics[arg'.input_path])
        /\ ~arg'.need_resize
        /\ ~arg'.orientation_changed)
          => LET in == arg'.input_path
                 out == FinalOut(arg'.input_path, arg'.output_path)
                 moved == [pics EXCEPT ![out] = pics[in], ![in] = "absent"]
             IN  IF arg'.metadata = "None" /\ ~arg'.remove_metadata
                 THEN /\ out = in => pics' = pics
                      /\ out # in => pics' \in {pics, moved}
                      /\ result'["msg"] \in
                            {PyStr("No changes needed"), PyStr("Renamed to .jpg"),
                             PyStr("Image rename failed")}
                 ELSE \/ /\ result' = ValidateResult(TRUE, "Validated", PyBool(FALSE),
                                                     PyBool(FALSE), PyPath(out))
                         /\ pics' = [pics EXCEPT ![out] = "encoded"]
                      \/ /\ arg'.os = "save_refused"
                         /\ result' = ValidationFailed
                         /\ pics' = pics
      ]_vars

\* a supplied JPEG was moved to another path as it was
C23_Witness ==
    /\ op = "image_validate_pillow"
    /\ arg.metadata = "None"
    /\ ~arg.remove_metadata
    /\ ~arg.need_resize
    /\ ~arg.orientation_changed
    /\ result["msg"] = PyStr("Renamed to .jpg")
    /\ FinalOut(arg.input_path, arg.output_path) # arg.input_path
    /\ pics[FinalOut(arg.input_path, arg.output_path)] = "jpeg"
    /\ pics[arg.input_path] = "absent"

\* C28: when image_validate_pillow returns success with an output path, a
\* file lies at that path.
C28_OutputExists ==
    (/\ op = "image_validate_pillow"
     /\ result["success"] = PyBool(TRUE)
     /\ result["output"] # PyNone)
        => \E p \in ImgPaths : result["output"] = PyPath(p) /\ pics[p] # "absent"

\* C24: when building or saving a requested thumbnail raises, the result
\* of image_generate_square_thumbnails has success = false, and a success
\* result means that every requested size was written.
C24_FailuresAsData ==
    (op = "image_generate_square_thumbnails" /\ arg.image = "file") =>
        LET norm_sizes == NormSizes(arg.sizes)
        IN  /\ arg.fail_at \in 1..Len(norm_sizes) =>
                  result["success"] = PyBool(FALSE)
            /\ result["success"] = PyBool(TRUE) =>
                  /\ \A i \in 1..Len(norm_sizes) : norm_sizes[i] \in thumb_dir.files
                  /\ result["output_paths"] = PyList(norm_sizes)

\* C25: a call of image_generate_square_thumbnails with a quality outside
\* [1, 95] or a size that is not positive returns a failure result and
\* leaves output_dir as it was.
C25_ValidationBeforeIo ==
    [][(/\ op' = "image_generate_square_thumbnails"
        /\ \/ ~(arg'.quality \in 1..95)
           \/ \E i \in 1..Len(arg'.sizes) : arg'.sizes[i] <= 0)
          => /\ result'["success"] = PyBool(FALSE)
             /\ thumb_dir' = thumb_dir
      ]_vars

\* C26: get and get_bool return the fallback they were given when the
\* configuration does not hold the requested option.
C26_FallbackReturned ==
    (/\ op \in {"config_get", "config_get_bool"}
     /\ ~HasOption(config.options, arg.section, arg.key))
        => result = arg.fallback

\* C29: after set(section, key, value), get(section, key) returns the
\* trimmed text of value.
C29_GetAfterSet ==
    op = "config_set" =>
        Get(config.options, arg.section, arg.key, PyNoneText) =
            PyText("str", Strip(PyStrOf(arg.value)))

====
